---- MODULE Spec2Model ----
(***************************************************************************)
(* A model of quart_github.GitHub (src/quart_github.py): the request       *)
(* pipeline (raw_request / request with pagination), the authorization     *)
(* callback (authorized_handler / _handle_response) and URL resolution     *)
(* (_get_resource_url).                                                    *)
(*                                                                         *)
(* Python values are represented as follows.                               *)
(*   str            a TLA+ string                                          *)
(*   Optional[x]    None is <<>>, a present value x is <<x>>               *)
(*   dict           a function from its keys (strings) to its values       *)
(*   decoded JSON   [shape, items]: a list is shape "array", a dict with   *)
(*                  an 'items' key is shape "items" (items is its list), a *)
(*                  dict without that key is "object", anything else       *)
(*                  (number, string, null, bool) is "scalar"               *)
(*   list elements  opaque values <<page, position>>: the code never       *)
(*                  inspects an element, so each is named by its origin    *)
(***************************************************************************)
EXTENDS Integers, Sequences, FiniteSets, TLC

\* ------------------------------------------------------------------ bounds
\* Longest chain of pages the upstream serves: page MaxPages has no next link.
MaxPages == 3
\* Most elements in one page's list.
MaxElems == 2

\* ------------------------------------------------------ Python helper values
None == <<>>
Some(x) == <<x>>
\* None formatted as the empty string
Str_empty_for_none(v) == IF v = None THEN "" ELSE v[1]

\* '%s' % v for an Optional[str]
Str(v) == IF v = None THEN "None" ELSE v[1]
\* str.startswith
StartsWith(s, p) == Len(s) >= Len(p) /\ SubSeq(s, 1, Len(p)) = p
\* decimal digit of a page number, for building page URLs
Digit(k) == SubSeq("0123456789", k + 1, k + 1)

\* ------------------------------------------------------------ class constants
BASE_URL == "https://api.github.com/"
BASE_AUTH_URL == "https://github.com/login/oauth/"

VARIABLES
  \* client (GitHub instance) state
  base_url,          \* self.base_url
  get_access_token,  \* "NotImplemented" (the class default) or "registered"
  \* arguments of the request() call in progress
  access_token,      \* kwargs['access_token']: Optional[str]
  kw_headers,        \* kwargs 'headers': [kind: "absent" | "None" | "dict", dict]
  all_pages,         \* BOOLEAN
  \* position and locals of request() / raw_request()
  pc,                \* "PENDING", "TOKEN_RESOLVED", "SENT", "DONE", "ERROR"
  resource,          \* resource argument of the raw_request in progress
  headers,           \* raw_request's local headers dict
  response,          \* request's local: Optional[response]
  result,            \* request's local: Optional[decoded JSON]
  \* what the call produced
  outcome,           \* "pending", "json", "raw", or the name of the exception raised
  retval,            \* Optional: the value returned
  exc,               \* Optional: the response carried by GitHubError
  \* environment and observation
  scenario,          \* which inputs the environment draws from (see Upstream, GetterValues)
  calls,             \* session.request calls issued, in order: [url, headers]
  getter_returns,    \* what each invocation of the registered getter returned, in order
  received,          \* responses received, in order
  \* an authorize() call: its arguments, position and the redirect it returns
  scope,             \* Optional[str]
  redirect_uri,      \* Optional[str]
  state,             \* Optional[str]
  z_pc,              \* "IDLE", "CALLED", "DONE"
  redirect_to,       \* Optional[str]: Location of the redirect returned
  \* a call of one of the shortcuts get, post, head, patch, put, delete
  shortcut,          \* name of the shortcut called, "" when request() is called directly
  payload,           \* the shortcut's data argument: [t, v]
  shortcut_headers,  \* the shortcut's kwargs 'headers', as kw_headers
  method,            \* method argument of request()
  kw_data,           \* kwargs['data'] of request(): Optional[str]
  \* transports (AsyncClient objects, numbered from 1), finalizers, the event loop
  sessions,          \* number of AsyncClient objects created so far
  _session,          \* self._session: the client's transport, 0 for None
  is_closed,         \* is_closed of each transport
  finalizers,        \* transports whose weakref.finalize is alive (registered, not yet run)
  loop_state,        \* "running", "stopped" (open, not running), "closed"
  loop_debug,        \* the loop's debug flag
  ready,             \* the loop's queue of callbacks: the transport of each scheduled aclose
  scheduled,         \* per transport, how many times call_soon(aclose) was called
  unawaited,         \* transports whose aclose() coroutine was created and never awaited
  replaced,          \* transports the setter has replaced
  client_alive,      \* the application still refers to the GitHub instance
  phase,             \* interpreter: "running", "exiting" (atexit runs), "exited"
  \* concurrent calls (tasks) that were handed one and the same headers mapping
  heap,              \* the dict objects, by reference (position); 1 is the caller's mapping
  caller_mapping,    \* what the caller's mapping held when the calls were made
  t_kind,            \* per task: "request" or "post"
  t_pc,              \* per task: "IDLE", "CALLED", "RESOLVING", "SENT", "DONE"
  t_kw,              \* per task: reference of kwargs['headers'] of request()
  t_headers,         \* per task: reference of raw_request's local headers
  t_left,            \* per task: HTTP calls still to make (pages)
  t_calls,           \* session.request calls issued by the tasks: [task, headers]
  \* client configuration used by the authorization flow
  client_id,         \* self.client_id
  client_secret,     \* self.client_secret
  auth_url,          \* self.auth_url
  \* one invocation of a handler wrapped by authorized_handler
  h_pc,              \* "CALLED", "EXCHANGING", "DONE" ("IDLE": no invocation)
  args,              \* request.args.get('code'): Optional[str], None when 'code' is absent
  posts,             \* session.post calls issued, in order: [url, data]
  token_response,    \* Optional: the token endpoint's response [status_code, content]
  sent_fields,       \* the (name, value) fields the token endpoint encoded into its body
  data,              \* decorated's local: the resolved token, Optional[str]
  f_calls            \* first argument of each invocation of the wrapped handler f

reqVars == <<base_url, get_access_token, access_token, kw_headers, all_pages, pc,
             resource, headers, response, result, outcome, retval, exc, scenario,
             calls, getter_returns, received>>

authVars == <<client_id, client_secret, auth_url, h_pc, args, posts, token_response,
              sent_fields, data, f_calls>>
authzVars == <<scope, redirect_uri, state, z_pc, redirect_to>>
shortcutVars == <<shortcut, payload, shortcut_headers, method, kw_data>>
sessionVars == <<sessions, _session, is_closed, finalizers, loop_state, loop_debug, ready,
                 scheduled, unawaited, replaced, client_alive, phase>>
taskVars == <<heap, caller_mapping, t_kind, t_pc, t_kw, t_headers, t_left, t_calls>>
otherVars == <<authzVars, shortcutVars, sessionVars, taskVars>>

\* ------------------------------------------------- response classification
\* is_valid_response taking only 4xx and 5xx for errors
is_valid_response_below_400(r) == r.status_code < 400

\* is_valid_response
is_valid_response(r) == 200 <= r.status_code /\ r.status_code <= 299

\* is_json_response matching on the bare prefix
is_json_response_prefix(r) == StartsWith(r.content_type, "application/json")

\* is_json_response; content_type is "" when the header is absent
is_json_response(r) ==
  \/ r.content_type = "application/json"
  \/ StartsWith(r.content_type, "application/json;")

\* ------------------------------------------------------------ raw_request
\* _pop_headers: a copy of the caller's mapping, or a fresh empty dict
EmptyDict == [k \in {} |-> ""]
_pop_headers(kw) == IF kw.kind = "dict" THEN kw.dict ELSE EmptyDict

\* headers.setdefault('Authorization', value): the caller's entry is kept
SetAuthorization_setdefault(h, value) ==
  [k \in DOMAIN h \cup {"Authorization"} |-> IF k \in DOMAIN h THEN h[k] ELSE value]

\* headers['Authorization'] = value
SetAuthorization(h, value) ==
  [k \in DOMAIN h \cup {"Authorization"} |-> IF k = "Authorization" THEN value ELSE h[k]]

\* _get_authorization_header's formatting
AuthorizationValue(token) == "token " \o Str(token)

\* _get_resource_url
_get_resource_url(base, res) ==
  IF StartsWith(res, "http://") \/ StartsWith(res, "https://") THEN res
  ELSE IF StartsWith(res, "/") THEN SubSeq(base, 1, Len(base) - 1) \o res
  ELSE base \o res

\* ----------------------------------------------------------- environment
\* A page's list: its elements are named <<page, position>>.
Body(k, n) == [i \in 1..n |-> <<k, i>>]

\* What a page's body may decode to.
JsonValues(k) ==
  {[shape |-> sh, items |-> Body(k, n)] : sh \in {"array", "items"}, n \in 0..MaxElems}
    \cup {[shape |-> "object", items |-> <<>>], [shape |-> "scalar", items |-> <<>>]}

\* The body of a response nobody decodes.
Undecoded == [shape |-> "undecoded", items |-> <<>>]

PageUrl(k) == "https://api.github.com/items?page=" \o Digit(k)

\* response.links.get('next') of page k: page MaxPages ends every chain.
Links(k) == IF k < MaxPages THEN {None, Some(PageUrl(k + 1))} ELSE {None}

Resp(s, c, j, n) == [status_code |-> s, content_type |-> c, json |-> j, next |-> n]

JsonTypes == {"application/json", "application/json; charset=utf-8"}
OtherTypes == {"", "text/html", "application/jsonp", "Application/JSON"}

\* The responses the upstream may give to the k-th fetch of a call.
\*   "paged":  every status class, content type and body shape
\*   "caller": a plain chain of array pages or a 404 (the caller's arguments vary instead)
\*   "chain":  every kind of page once: error or not, JSON or not, each body shape
\*   "url":    one page of HTML (the API base and the resource vary instead)
Upstream(scn, k) ==
  IF scn = "paged"
  THEN {Resp(s, c, Undecoded, n) :
          s \in {199, 300, 404}, c \in {"application/json", "text/html"}, n \in Links(k)}
       \cup {Resp(s, c, Undecoded, n) : s \in {200, 299}, c \in OtherTypes, n \in Links(k)}
       \cup {Resp(s, c, j, n) :
               s \in {200, 299}, c \in JsonTypes, j \in JsonValues(k), n \in Links(k)}
  ELSE IF scn \in {"caller", "session"}
  THEN {Resp(200, "application/json", [shape |-> "array", items |-> Body(k, MaxElems)], n) :
          n \in Links(k)}
       \cup {Resp(404, "application/json", Undecoded, None)}
  ELSE IF scn = "chain"
  THEN {Resp(404, c, Undecoded, n) : c \in {"application/json", "text/html"}, n \in Links(k)}
       \cup {Resp(200, "text/html", Undecoded, n) : n \in Links(k)}
       \cup {Resp(200, "application/json", [shape |-> sh, items |-> Body(k, 1)], n) :
               sh \in {"array", "items"}, n \in Links(k)}
       \cup {Resp(200, "application/json", [shape |-> sh, items |-> <<>>], n) :
               sh \in {"object", "scalar"}, n \in Links(k)}
  ELSE {Resp(200, "text/html", Undecoded, None)}

\* What the registered token getter may return (None: no authenticated user).
GetterValues(scn) == IF scn = "paged" THEN {Some("gtok")} ELSE {None, Some("gtok")}

\* The caller's headers keyword.
KwHeaders ==
  {[kind |-> "absent", dict |-> EmptyDict], [kind |-> "None", dict |-> EmptyDict]}
    \cup {[kind |-> "dict", dict |-> d] :
            d \in {EmptyDict,
                   [Accept |-> "text/plain"],
                   [Authorization |-> "token caller"],
                   [authorization |-> "token caller"]}}

\* app.config.get('GITHUB_BASE_URL', BASE_URL) as init_app may find it
ConfiguredBases ==
  {BASE_URL, "https://ghe.example.com/api/v3/", "https://ghe.example.com/api/v3",
   "http://localhost:8080/", "http://localhost:8080", ""}

\* resource arguments a caller may pass
Resources ==
  {"repos/x/y", "/repos/x/y", "user", "/user", "", "/", "//user",
   "http://h/r", "https://h/r", "HTTP://h/r", "http:/h/r", "ftp://h/r", "https:", "httpx"}

\* ------------------------------------------------------------------ request
\* The merge with the new page put in front of the accumulated elements.
Merge_prepend(acc, body) ==
  IF body.shape \in {"array", "items"}
  THEN IF acc.shape = body.shape
       THEN [error |-> "", result |-> [acc EXCEPT !.items = body.items \o acc.items]]
       ELSE [error |-> "TypeError", result |-> acc]
  ELSE [error |-> "GitHubError", result |-> acc]

\* The merge of one follow-up page into the accumulator (request's loop body):
\* [error, result], error "" when the page was merged.
Merge(acc, body) ==
  IF body.shape = "array"
  THEN \* result += body
       IF acc.shape = "array"
       THEN [error |-> "", result |-> [acc EXCEPT !.items = acc.items \o body.items]]
       ELSE [error |-> "TypeError", result |-> acc]
  ELSE IF body.shape = "items"
  THEN \* result['items'] += body['items']
       IF acc.shape = "items"
       THEN [error |-> "", result |-> [acc EXCEPT !.items = acc.items \o body.items]]
       ELSE IF acc.shape = "object"
       THEN [error |-> "KeyError", result |-> acc]
       ELSE [error |-> "TypeError", result |-> acc]
  ELSE [error |-> "GitHubError", result |-> acc]

\* raise GitHubError(response)
RaiseGitHubError(r) ==
  /\ pc' = "ERROR"
  /\ outcome' = "GitHubError"
  /\ exc' = Some(r)
  /\ UNCHANGED <<retval, resource>>

\* The loop going on after a page without a next link, as long as pages are left
LoopOrReturn_ignores_last(r, res) ==
  /\ result' = Some(res)
  /\ exc' = exc
  /\ IF all_pages /\ (r.next # None \/ Len(calls) < MaxPages)
     THEN /\ pc' = "PENDING"
          /\ resource' = IF r.next # None THEN r.next[1] ELSE PageUrl(Len(calls) + 1)
          /\ UNCHANGED <<outcome, retval>>
     ELSE /\ pc' = "DONE"
          /\ outcome' = "json"
          /\ retval' = Some(res)
          /\ UNCHANGED resource

\* The loop fetching the original resource again instead of the page's next link.
LoopOrReturn_same_resource(r, res) ==
  /\ result' = Some(res)
  /\ exc' = exc
  /\ IF all_pages /\ r.next # None
     THEN /\ pc' = "PENDING"
          /\ UNCHANGED <<outcome, retval, resource>>
     ELSE /\ pc' = "DONE"
          /\ outcome' = "json"
          /\ retval' = Some(res)
          /\ UNCHANGED resource

\* The loop condition after a page has been taken into `res`: fetch the next
\* page (a new raw_request starts) or return the result.
LoopOrReturn(r, res) ==
  /\ result' = Some(res)
  /\ exc' = exc
  /\ IF all_pages /\ r.next # None
     THEN /\ resource' = r.next[1]
          /\ pc' = "PENDING"
          /\ UNCHANGED <<outcome, retval>>
     ELSE /\ pc' = "DONE"
          /\ outcome' = "json"
          /\ retval' = Some(res)
          /\ UNCHANGED resource

\* raw_request up to the await of the token, with an explicit access_token
ResolveExplicit ==
  /\ UNCHANGED <<authVars, otherVars>>
  /\ pc = "PENDING"
  /\ access_token # None
  /\ headers' = SetAuthorization(_pop_headers(kw_headers), AuthorizationValue(access_token))
  /\ pc' = "TOKEN_RESOLVED"
  /\ UNCHANGED <<base_url, get_access_token, access_token, kw_headers, all_pages, resource,
                 response, result, outcome, retval, exc, scenario, calls, getter_returns,
                 received>>

\* raw_request reusing the token the getter returned for the first page
ResolveGetter_cached(v) ==
  /\ UNCHANGED <<authVars, otherVars>>
  /\ pc = "PENDING"
  /\ access_token = None
  /\ get_access_token = "registered"
  /\ getter_returns' = IF getter_returns = <<>> THEN <<v>> ELSE getter_returns
  /\ headers' = SetAuthorization(_pop_headers(kw_headers),
                                 AuthorizationValue(getter_returns'[1]))
  /\ pc' = "TOKEN_RESOLVED"
  /\ UNCHANGED <<base_url, get_access_token, access_token, kw_headers, all_pages, resource,
                 response, result, outcome, retval, exc, scenario, calls, received>>

\* raw_request up to the await of the token: the registered getter returns v
ResolveGetter(v) ==
  /\ UNCHANGED <<authVars, otherVars>>
  /\ pc = "PENDING"
  /\ access_token = None
  /\ get_access_token = "registered"
  /\ getter_returns' = Append(getter_returns, v)
  /\ headers' = SetAuthorization(_pop_headers(kw_headers), AuthorizationValue(v))
  /\ pc' = "TOKEN_RESOLVED"
  /\ UNCHANGED <<base_url, get_access_token, access_token, kw_headers, all_pages, resource,
                 response, result, outcome, retval, exc, scenario, calls, received>>

\* raw_request with no token source going on as for a getter that returns None
ResolveUnconfigured_anonymous ==
  /\ UNCHANGED <<authVars, otherVars>>
  /\ pc = "PENDING"
  /\ access_token = None
  /\ get_access_token = "NotImplemented"
  /\ headers' = SetAuthorization(_pop_headers(kw_headers), AuthorizationValue(None))
  /\ pc' = "TOKEN_RESOLVED"
  /\ UNCHANGED <<base_url, get_access_token, access_token, kw_headers, all_pages, resource,
                 response, result, outcome, retval, exc, scenario, calls, getter_returns,
                 received>>

\* raw_request with no token source: GitHub.get_access_token raises
ResolveUnconfigured ==
  /\ UNCHANGED <<authVars, otherVars>>
  /\ pc = "PENDING"
  /\ access_token = None
  /\ get_access_token = "NotImplemented"
  /\ pc' = "ERROR"
  /\ outcome' = "NotImplementedError"
  /\ UNCHANGED <<base_url, get_access_token, access_token, kw_headers, all_pages, resource,
                 headers, response, result, retval, exc, scenario, calls, getter_returns,
                 received>>

\* raw_request: the HTTP call goes out
Send ==
  /\ UNCHANGED <<authVars, otherVars>>
  /\ pc = "TOKEN_RESOLVED"
  /\ calls' = Append(calls, [url |-> _get_resource_url(base_url, resource),
                             headers |-> headers,
                             method |-> method,
                             data |-> kw_data,
                             session |-> _session])
  /\ pc' = "SENT"
  /\ UNCHANGED <<base_url, get_access_token, access_token, kw_headers, all_pages, resource,
                 headers, response, result, outcome, retval, exc, scenario, getter_returns,
                 received>>

\* request: the first response arrives
ReceiveFirst(r) ==
  /\ UNCHANGED <<authVars, otherVars>>
  /\ pc = "SENT"
  /\ received = <<>>
  /\ response' = Some(r)
  /\ received' = Append(received, r)
  /\ IF ~is_valid_response(r)
     THEN RaiseGitHubError(r) /\ UNCHANGED result
     ELSE IF is_json_response(r)
     THEN LoopOrReturn(r, r.json)
     ELSE /\ pc' = "DONE"
          /\ outcome' = "raw"
          /\ retval' = Some(r)
          /\ UNCHANGED <<result, exc, resource>>
  /\ UNCHANGED <<base_url, get_access_token, access_token, kw_headers, all_pages, headers,
                 scenario, calls, getter_returns>>

\* request: the response of a follow-up page arrives
ReceiveNext(r) ==
  /\ UNCHANGED <<authVars, otherVars>>
  /\ pc = "SENT"
  /\ received # <<>>
  /\ response' = Some(r)
  /\ received' = Append(received, r)
  /\ IF ~is_valid_response(r) \/ ~is_json_response(r)
     THEN RaiseGitHubError(r) /\ UNCHANGED result
     ELSE LET m == Merge(result[1], r.json)
          IN  IF m.error = "" THEN LoopOrReturn(r, m.result)
              ELSE IF m.error = "GitHubError" THEN RaiseGitHubError(r) /\ UNCHANGED result
              ELSE /\ pc' = "ERROR"
                   /\ outcome' = m.error
                   /\ UNCHANGED <<result, retval, exc, resource>>
  /\ UNCHANGED <<base_url, get_access_token, access_token, kw_headers, all_pages, headers,
                 scenario, calls, getter_returns>>

\* ---------------------------------------------------- urllib.parse helpers
\* str.find of a one-character string, from position i on; 0 when absent
RECURSIVE Find(_, _, _)
Find(s, c, i) ==
  IF i > Len(s) THEN 0
  ELSE IF SubSeq(s, i, i) = c THEN i
  ELSE Find(s, c, i + 1)

\* str.split(sep) for a one-character separator
RECURSIVE Split(_, _)
Split(s, sep) ==
  LET i == Find(s, sep, 1)
  IN  IF i = 0 THEN <<s>>
      ELSE <<SubSeq(s, 1, i - 1)>> \o Split(SubSeq(s, i + 1, Len(s)), sep)

\* str.split(sep, 1)
Split1(s, sep) ==
  LET i == Find(s, sep, 1)
  IN  IF i = 0 THEN <<s>> ELSE <<SubSeq(s, 1, i - 1), SubSeq(s, i + 1, Len(s))>>

\* The percent escapes of the characters that occur in the modelled bodies.
Escapes == [c \in {" ", "&", "=", "+", "%", ":", "/", ","} |->
              CASE c = " " -> "%20" [] c = "&" -> "%26" [] c = "=" -> "%3D"
                [] c = "+" -> "%2B" [] c = "%" -> "%25" [] c = ":" -> "%3A"
                [] c = "/" -> "%2F" [] c = "," -> "%2C"]

\* s.replace('+', ' ')
RECURSIVE PlusToSpace(_)
PlusToSpace(s) ==
  IF s = "" THEN ""
  ELSE (IF Head(s) = "+" THEN " " ELSE Head(s)) \o PlusToSpace(Tail(s))

\* urllib.parse.unquote: a known escape is decoded, anything else is kept
RECURSIVE unquote(_)
unquote(s) ==
  IF s = "" THEN ""
  ELSE IF Head(s) = "%" /\ Len(s) >= 3
          /\ \E c \in DOMAIN Escapes : Escapes[c] = SubSeq(s, 1, 3)
  THEN (CHOOSE c \in DOMAIN Escapes : Escapes[c] = SubSeq(s, 1, 3))
         \o unquote(SubSeq(s, 4, Len(s)))
  ELSE Head(s) \o unquote(Tail(s))

\* urllib.parse.parse_qsl(qs) with its defaults (keep_blank_values=False,
\* strict_parsing=False, separator '&'): the (name, value) pairs in order
RECURSIVE parse_pairs(_)
parse_pairs(pieces) ==
  IF pieces = <<>> THEN <<>>
  ELSE LET name_value == Head(pieces)
           nv == Split1(name_value, "=")
           rest == parse_pairs(Tail(pieces))
       IN  IF name_value = "" THEN rest
           ELSE IF Len(nv) # 2 THEN rest
           ELSE IF Len(nv[2]) > 0
           THEN <<<<unquote(PlusToSpace(nv[1])), unquote(PlusToSpace(nv[2]))>>>> \o rest
           ELSE rest

parse_qsl(qs) == parse_pairs(Split(qs, "&"))

\* urllib.parse.parse_qs(qs).get(name): the list of the values of name, in
\* order; <<>> stands for a name that is no key of the dict
RECURSIVE ValuesOf(_, _)
ValuesOf(pairs, name) ==
  IF pairs = <<>> THEN <<>>
  ELSE (IF Head(pairs)[1] = name THEN <<Head(pairs)[2]>> ELSE <<>>)
         \o ValuesOf(Tail(pairs), name)

\* _handle_response taking the last access_token value instead of the first
AccessTokenOf_last(content) ==
  LET values == ValuesOf(parse_qsl(content), "access_token")
  IN  IF values = <<>> THEN None ELSE Some(values[Len(values)])

\* _handle_response after the POST: data.get(b'access_token', [None])[0],
\* decoded when it is not None
AccessTokenOf(content) ==
  LET values == ValuesOf(parse_qsl(content), "access_token")
  IN  IF values = <<>> THEN None ELSE Some(values[1])

\* ------------------------------------------------- token endpoint (environment)
\* urllib.parse.quote_plus on the characters that occur in the modelled values
RECURSIVE quote_plus(_)
quote_plus(s) ==
  IF s = "" THEN ""
  ELSE (IF Head(s) = " " THEN "+"
        ELSE IF Head(s) \in DOMAIN Escapes THEN Escapes[Head(s)]
        ELSE Head(s)) \o quote_plus(Tail(s))

\* The form encoding of a sequence of (name, value) fields: name=value joined by '&'
RECURSIVE UrlEncode(_)
UrlEncode(fields) ==
  IF fields = <<>> THEN ""
  ELSE quote_plus(Head(fields)[1]) \o "=" \o quote_plus(Head(fields)[2])
         \o (IF Len(fields) > 1 THEN "&" \o UrlEncode(Tail(fields)) ELSE "")

\* Fields the token endpoint may put in its body.
Fields ==
  {<<"access_token", "asdf">>, <<"access_token", "">>, <<"access_token", "a b&c=d+e%">>,
   <<"access_tokens", "qwer">>, <<"token_type", "bearer">>,
   <<"error", "bad_verification_code">>}

\* Bodies of at most MaxFields fields.
MaxFields == 2
FieldSeqs == UNION {[1..n -> Fields] : n \in 0..MaxFields}

\* The bodies the token endpoint answers with in a scenario.
TokenBodies(scn) ==
  IF scn = "callback" THEN FieldSeqs
  ELSE {<<<<"access_token", "asdf">>, <<"token_type", "bearer">>>>}

\* ------------------------------------------------------- authorized_handler
\* _handle_response posting the code and the client id without the secret
CallbackWithCode_no_secret ==
  /\ UNCHANGED <<reqVars, otherVars>>
  /\ h_pc = "CALLED"
  /\ args # None
  /\ posts' = Append(posts, [url |-> auth_url \o "access_token",
                             session |-> _session,
                             data |-> [code |-> args[1], client_id |-> client_id]])
  /\ h_pc' = "EXCHANGING"
  /\ UNCHANGED <<client_id, client_secret, auth_url, args, token_response, sent_fields,
                 data, f_calls>>

\* decorated, 'code' in request.args: _handle_response issues the POST
CallbackWithCode ==
  /\ UNCHANGED <<reqVars, otherVars>>
  /\ h_pc = "CALLED"
  /\ args # None
  /\ posts' = Append(posts, [url |-> auth_url \o "access_token",
                             session |-> _session,
                             data |-> [code |-> args[1], client_id |-> client_id,
                                       client_secret |-> client_secret]])
  /\ h_pc' = "EXCHANGING"
  /\ UNCHANGED <<client_id, client_secret, auth_url, args, token_response, sent_fields,
                 data, f_calls>>

\* decorated attempting the exchange although no 'code' came back
CallbackWithoutCode_exchanges ==
  /\ UNCHANGED <<reqVars, otherVars>>
  /\ h_pc = "CALLED"
  /\ args = None
  /\ posts' = Append(posts, [url |-> auth_url \o "access_token",
                             session |-> _session,
                             data |-> [code |-> "", client_id |-> client_id,
                                       client_secret |-> client_secret]])
  /\ h_pc' = "EXCHANGING"
  /\ UNCHANGED <<client_id, client_secret, auth_url, args, token_response, sent_fields,
                 data, f_calls>>

\* decorated, no 'code': _handle_invalid_response returns None, then f is called
CallbackWithoutCode ==
  /\ UNCHANGED <<reqVars, otherVars>>
  /\ h_pc = "CALLED"
  /\ args = None
  /\ data' = None
  /\ f_calls' = Append(f_calls, data')
  /\ h_pc' = "DONE"
  /\ UNCHANGED <<client_id, client_secret, auth_url, args, posts, token_response,
                 sent_fields>>

\* The token endpoint answers with status s and the fields encoded in its body:
\* _handle_response returns the token, then decorated calls f
ExchangeResponse(s, fields) ==
  /\ UNCHANGED <<reqVars, otherVars>>
  /\ h_pc = "EXCHANGING"
  /\ sent_fields' = fields
  /\ token_response' = Some([status_code |-> s, content |-> UrlEncode(fields)])
  /\ data' = AccessTokenOf(token_response'[1].content)
  /\ f_calls' = Append(f_calls, data')
  /\ h_pc' = "DONE"
  /\ UNCHANGED <<client_id, client_secret, auth_url, args, posts>>

\* The provider has redirected back to a route wrapped by authorized_handler.
InitCallback ==
  /\ client_id = "123"
  /\ client_secret = "SEKRET"
  /\ auth_url \in {BASE_AUTH_URL, "http://localhost/oauth/"}
  /\ h_pc = "CALLED"
  /\ args \in {None, Some("KODE"), Some("")}
  /\ posts = <<>>
  /\ token_response = None
  /\ sent_fields = <<>>
  /\ data = None
  /\ f_calls = <<>>

\* No callback is being handled.
IdleCallback ==
  /\ client_id = "123"
  /\ client_secret = "SEKRET"
  /\ auth_url = BASE_AUTH_URL
  /\ h_pc = "IDLE"
  /\ args = None
  /\ posts = <<>>
  /\ token_response = None
  /\ sent_fields = <<>>
  /\ data = None
  /\ f_calls = <<>>

\* A request() call has just been made on a configured client.
\*   "paged":  the upstream's answers vary
\*   "caller": the caller's arguments and the token source vary
\*   "url":    the configured API base and the resource vary
\*   "chain":  pages of every kind follow one another
\*   "session": transports are replaced and released while the call runs
InitRequest ==
  /\ pc = "PENDING"
  /\ headers = EmptyDict
  /\ response = None
  /\ result = None
  /\ outcome = "pending"
  /\ retval = None
  /\ exc = None
  /\ calls = <<>>
  /\ getter_returns = <<>>
  /\ received = <<>>
  /\ all_pages \in BOOLEAN
  /\ \/ /\ scenario = "paged"
        /\ base_url = BASE_URL
        /\ resource = "/items"
        /\ get_access_token = "registered"
        /\ access_token = None
        /\ kw_headers = [kind |-> "absent", dict |-> EmptyDict]
     \/ /\ scenario = "caller"
        /\ base_url = BASE_URL
        /\ resource = "/items"
        /\ get_access_token \in {"NotImplemented", "registered"}
        /\ access_token \in {None, Some("atok"), Some("")}
        /\ kw_headers \in KwHeaders
     \/ /\ scenario = "chain"
        /\ base_url = BASE_URL
        /\ resource = "/items"
        /\ get_access_token \in {"NotImplemented", "registered"}
        /\ access_token \in {None, Some("atok")}
        /\ kw_headers = [kind |-> "absent", dict |-> EmptyDict]
     \/ /\ scenario = "session"
        /\ base_url = BASE_URL
        /\ resource = "/items"
        /\ get_access_token = "registered"
        /\ access_token = Some("atok")
        /\ kw_headers = [kind |-> "absent", dict |-> EmptyDict]
     \/ /\ scenario = "url"
        /\ base_url \in ConfiguredBases
        /\ resource \in Resources
        /\ get_access_token = "registered"
        /\ access_token = Some("atok")
        /\ kw_headers = [kind |-> "absent", dict |-> EmptyDict]

\* No request() call is in progress.
IdleRequest ==
  /\ pc = "IDLE"
  /\ base_url = BASE_URL
  /\ resource = ""
  /\ get_access_token = "NotImplemented"
  /\ access_token = None
  /\ kw_headers = [kind |-> "absent", dict |-> EmptyDict]
  /\ all_pages = FALSE
  /\ headers = EmptyDict
  /\ response = None
  /\ result = None
  /\ outcome = "pending"
  /\ retval = None
  /\ exc = None
  /\ calls = <<>>
  /\ getter_returns = <<>>
  /\ received = <<>>

\* -------------------------------------------------------------- shortcuts
\* The HTTP verb each shortcut passes to request()
Verb == [get |-> "GET", post |-> "POST", head |-> "HEAD", patch |-> "PATCH",
         put |-> "PUT", delete |-> "DELETE"]

\* The shortcuts that encode a payload
Encoding == {"post", "patch", "put"}

\* json.dumps of a payload: None, an int, a str or the dict {'title': str}
JsonDumps(p) ==
  CASE p.t = "null" -> "null"
    [] p.t = "int" -> p.v
    [] p.t = "str" -> "\"" \o p.v \o "\""
    [] p.t = "dict" -> "{\"title\": \"" \o p.v \o "\"}"

\* headers.setdefault(key, value) on a dict: an entry under exactly that key is kept
SetDefault(h, key, value) ==
  [k \in DOMAIN h \cup {key} |-> IF k \in DOMAIN h THEN h[k] ELSE value]

\* get / head / delete: request(VERB, resource, **kwargs);
\* post / patch / put: dict(kwargs.pop('headers', {})), the Content-Type default,
\* json.dumps(data), then request(VERB, resource, headers=headers, data=data)
Shortcut ==
  /\ UNCHANGED <<authVars, authzVars, sessionVars, taskVars>>
  /\ pc = "CALLED"
  /\ IF shortcut \in Encoding
     THEN IF shortcut_headers.kind = "None"
          THEN /\ pc' = "ERROR"
               /\ outcome' = "TypeError"
               /\ UNCHANGED <<kw_headers, method, kw_data>>
          ELSE /\ kw_headers' = [kind |-> "dict",
                                 dict |-> SetDefault(shortcut_headers.dict, "Content-Type",
                                                     "application/json")]
               /\ kw_data' = Some(JsonDumps(payload))
               /\ method' = Verb[shortcut]
               /\ pc' = "PENDING"
               /\ UNCHANGED outcome
     ELSE /\ kw_headers' = shortcut_headers
          /\ method' = Verb[shortcut]
          /\ pc' = "PENDING"
          /\ UNCHANGED <<kw_data, outcome>>
  /\ UNCHANGED <<base_url, get_access_token, access_token, all_pages, resource, headers,
                 response, result, retval, exc, scenario, calls, getter_returns, received,
                 shortcut, payload, shortcut_headers>>

\* Payloads and headers a caller may hand to a shortcut.
Payloads ==
  {[t |-> "null", v |-> ""], [t |-> "int", v |-> "1"], [t |-> "str", v |-> "hi"],
   [t |-> "dict", v |-> "Found a bug"]}

ShortcutHeaders ==
  {[kind |-> "absent", dict |-> EmptyDict], [kind |-> "None", dict |-> EmptyDict]}
    \cup {[kind |-> "dict", dict |-> d] :
            d \in {EmptyDict,
                   [Accept |-> "text/plain"],
                   "Content-Type" :> "text/plain",
                   "content-type" :> "text/plain"}}

\* One of the shortcuts has just been called on a configured client.
InitShortcut ==
  /\ pc = "CALLED"
  /\ scenario = "shortcut"
  /\ shortcut \in DOMAIN Verb
  /\ payload \in (IF shortcut \in Encoding THEN Payloads ELSE {[t |-> "null", v |-> ""]})
  /\ shortcut_headers \in ShortcutHeaders
  /\ kw_headers = [kind |-> "absent", dict |-> EmptyDict]
  /\ method = ""
  /\ kw_data = None
  /\ base_url = BASE_URL
  /\ resource = "repos/o/r/issues"
  /\ get_access_token = "registered"
  /\ access_token \in {None, Some("tok")}
  /\ all_pages = FALSE
  /\ headers = EmptyDict
  /\ response = None
  /\ result = None
  /\ outcome = "pending"
  /\ retval = None
  /\ exc = None
  /\ calls = <<>>
  /\ getter_returns = <<>>
  /\ received = <<>>

\* request() is called directly, with 'GET' and no data keyword.
NoShortcut ==
  /\ shortcut = ""
  /\ payload = [t |-> "null", v |-> ""]
  /\ shortcut_headers = [kind |-> "absent", dict |-> EmptyDict]
  /\ method = "GET"
  /\ kw_data = None

\* ------------------------------------------------------------- authorize
\* `if value:` taken for every value that is not None
Truthy_not_none(v) == v # None

\* Python truth of an Optional[str]: None and '' are false
Truthy(v) == v # None /\ v[1] # ""

\* The params dict of authorize, as the sequence of its items in insertion order
AuthorizeParams(cid, sc, ru, st) ==
  <<<<"client_id", cid>>>>
    \o (IF Truthy(sc) THEN <<<<"scope", sc[1]>>>> ELSE <<>>)
    \o (IF Truthy(ru) THEN <<<<"redirect_uri", ru[1]>>>> ELSE <<>>)
    \o (IF Truthy(st) THEN <<<<"state", st[1]>>>> ELSE <<>>)

\* authorize(scope, redirect_uri, state): builds the URL and returns the redirect
Authorize ==
  /\ UNCHANGED <<reqVars, authVars, shortcutVars, sessionVars, taskVars>>
  /\ z_pc = "CALLED"
  /\ redirect_to' = Some(auth_url \o "authorize?"
                           \o UrlEncode(AuthorizeParams(client_id, scope, redirect_uri, state)))
  /\ z_pc' = "DONE"
  /\ UNCHANGED <<scope, redirect_uri, state>>

\* Arguments a view may pass to authorize().
Scopes == {None, Some(""), Some("user,repo")}
RedirectUris == {None, Some(""), Some("http://example.com/callback/my/path")}
States == {None, Some(""), Some("a b&c")}

\* authorize() has just been called on a configured client.
InitAuthorize ==
  /\ z_pc = "CALLED"
  /\ scope \in Scopes
  /\ redirect_uri \in RedirectUris
  /\ state \in States
  /\ redirect_to = None

\* No authorize() call is in progress.
IdleAuthorize ==
  /\ z_pc = "IDLE"
  /\ scope = None
  /\ redirect_uri = None
  /\ state = None
  /\ redirect_to = None

\* The client configuration and an idle callback handler, for authorize().
ConfiguredForAuthorize ==
  /\ client_id \in {"123", "Iv1.a b"}
  /\ client_secret = "SEKRET"
  /\ auth_url \in {BASE_AUTH_URL, "http://localhost/oauth/"}
  /\ h_pc = "IDLE"
  /\ args = None
  /\ posts = <<>>
  /\ token_response = None
  /\ sent_fields = <<>>
  /\ data = None
  /\ f_calls = <<>>

\* ------------------------------------------- transports, finalizers, the loop
\* Largest number of AsyncClient objects created in one run.
MaxSessions == 2

\* The scenarios in which the application replaces, closes and drops things.
SessionScenarios == {"session", "session_exchange"}

\* A request() call or a code exchange has started and not finished.
InFlight ==
  \/ pc \in {"CALLED", "PENDING", "TOKEN_RESOLVED", "SENT"}
  \/ h_pc \in {"CALLED", "EXCHANGING"}

\* _close_session gets past its guard (loop is never None: get_event_loop gave it)
Schedules(s) == s # 0 /\ ~is_closed[s] /\ loop_state # "closed"

\* _close_session(session, loop): nothing, or loop.call_soon(session.aclose);
\* a loop in debug mode refuses a coroutine function and call_soon raises TypeError
_close_session(s) ==
  IF Schedules(s) /\ ~loop_debug
  THEN /\ ready' = Append(ready, s)
       /\ scheduled' = [scheduled EXCEPT ![s] = @ + 1]
  ELSE UNCHANGED <<ready, scheduled>>

\* init_app called again (or github.session = AsyncClient()): the session setter
InitApp ==
  /\ UNCHANGED <<reqVars, authVars, authzVars, shortcutVars, taskVars>>
  /\ scenario \in SessionScenarios
  /\ client_alive
  /\ phase = "running"
  /\ sessions < MaxSessions
  /\ sessions' = sessions + 1
  /\ _close_session(_session)
  /\ IF Schedules(_session) /\ loop_debug
     THEN UNCHANGED <<_session, finalizers, replaced>>
     ELSE /\ _session' = sessions + 1
          /\ finalizers' = finalizers \cup {sessions + 1}
          /\ replaced' = replaced \cup {_session}
  /\ UNCHANGED <<is_closed, loop_state, loop_debug, unawaited, client_alive, phase>>

\* The loop awaiting the coroutine that a scheduled aclose returns
LoopRun_awaits ==
  /\ UNCHANGED <<reqVars, authVars, authzVars, shortcutVars, taskVars>>
  /\ loop_state = "running"
  /\ ready # <<>>
  /\ ready' = Tail(ready)
  /\ is_closed' = [is_closed EXCEPT ![Head(ready)] = TRUE]
  /\ UNCHANGED <<sessions, _session, finalizers, loop_state, loop_debug, scheduled,
                 unawaited, replaced, client_alive, phase>>

\* The loop runs the next callback: session.aclose() is called as a plain
\* function, the coroutine it returns is dropped without being awaited
LoopRun ==
  /\ UNCHANGED <<reqVars, authVars, authzVars, shortcutVars, taskVars>>
  /\ loop_state = "running"
  /\ ready # <<>>
  /\ ready' = Tail(ready)
  /\ unawaited' = unawaited \cup {Head(ready)}
  /\ UNCHANGED <<sessions, _session, is_closed, finalizers, loop_state, loop_debug,
                 scheduled, replaced, client_alive, phase>>

\* The application awaits github.session.aclose() itself (explicit shutdown)
AppAclose ==
  /\ UNCHANGED <<reqVars, authVars, authzVars, shortcutVars, taskVars>>
  /\ scenario \in SessionScenarios
  /\ ~InFlight
  /\ client_alive
  /\ loop_state = "running"
  /\ ~is_closed[_session]
  /\ is_closed' = [is_closed EXCEPT ![_session] = TRUE]
  /\ UNCHANGED <<sessions, _session, finalizers, loop_state, loop_debug, ready, scheduled,
                 unawaited, replaced, client_alive, phase>>

\* The application drops its reference to the GitHub instance. The transports stay
\* alive: each weakref.finalize holds its transport in its arguments.
DropClient ==
  /\ UNCHANGED <<reqVars, authVars, authzVars, shortcutVars, taskVars>>
  /\ scenario \in SessionScenarios
  /\ ~InFlight
  /\ client_alive
  /\ phase = "running"
  /\ client_alive' = FALSE
  /\ UNCHANGED <<sessions, _session, is_closed, finalizers, loop_state, loop_debug, ready,
                 scheduled, unawaited, replaced, phase>>

\* run_until_complete / run_forever returns
LoopStop ==
  /\ UNCHANGED <<reqVars, authVars, authzVars, shortcutVars, taskVars>>
  /\ scenario \in SessionScenarios
  /\ ~InFlight
  /\ loop_state = "running"
  /\ loop_state' = "stopped"
  /\ UNCHANGED <<sessions, _session, is_closed, finalizers, loop_debug, ready, scheduled,
                 unawaited, replaced, client_alive, phase>>

\* loop.close() (asyncio.run does it): the callbacks still queued are discarded
LoopClose ==
  /\ UNCHANGED <<reqVars, authVars, authzVars, shortcutVars, taskVars>>
  /\ loop_state = "stopped"
  /\ phase = "running"
  /\ loop_state' = "closed"
  /\ ready' = <<>>
  /\ UNCHANGED <<sessions, _session, is_closed, finalizers, loop_debug, scheduled,
                 unawaited, replaced, client_alive, phase>>

\* The interpreter starts to exit: weakref's atexit hook will run the finalizers
BeginExit ==
  /\ UNCHANGED <<reqVars, authVars, authzVars, shortcutVars, taskVars>>
  /\ loop_state # "running"
  /\ phase = "running"
  /\ phase' = "exiting"
  /\ client_alive' = FALSE
  /\ UNCHANGED <<sessions, _session, is_closed, finalizers, loop_state, loop_debug, ready,
                 scheduled, unawaited, replaced>>

\* atexit runs the live finalizers, newest first: _close_session(value, loop)
FinalizerFire ==
  /\ UNCHANGED <<reqVars, authVars, authzVars, shortcutVars, taskVars>>
  /\ phase = "exiting"
  /\ finalizers # {}
  /\ LET s == CHOOSE x \in finalizers : \A y \in finalizers : y <= x
     IN  /\ _close_session(s)
         /\ finalizers' = finalizers \ {s}
  /\ UNCHANGED <<sessions, _session, is_closed, loop_state, loop_debug, unawaited,
                 replaced, client_alive, phase>>

\* The interpreter is gone
EndExit ==
  /\ UNCHANGED <<reqVars, authVars, authzVars, shortcutVars, taskVars>>
  /\ phase = "exiting"
  /\ finalizers = {}
  /\ phase' = "exited"
  /\ UNCHANGED <<sessions, _session, is_closed, finalizers, loop_state, loop_debug, ready,
                 scheduled, unawaited, replaced, client_alive>>

\* After GitHub(app): init_app has set one transport through the setter, on a
\* running loop.
InitSession ==
  /\ sessions = 1
  /\ _session = 1
  /\ is_closed = [s \in 1..MaxSessions |-> FALSE]
  /\ finalizers = {1}
  /\ loop_state = "running"
  /\ ready = <<>>
  /\ scheduled = [s \in 1..MaxSessions |-> 0]
  /\ unawaited = {}
  /\ replaced = {}
  /\ client_alive = TRUE
  /\ phase = "running"

\* ------------------------------------- concurrent calls sharing one mapping
\* Largest number of calls in progress at once.
MaxTasks == 2
Tasks == 1..MaxTasks

\* The caller's mapping object.
CallerRef == 1

\* The token each task's call resolves to (its own user's).
TaskToken(t) == Some("tok" \o Digit(t))

\* Handing on the mapping itself instead of a copy
CopyOf_alias(hp, ref) == [heap |-> hp, ref |-> ref]

\* headers.copy() / dict(headers): a new dict object with the same items
CopyOf(hp, ref) == [heap |-> Append(hp, hp[ref]), ref |-> Len(hp) + 1]

\* The call is made. post: dict(kwargs.pop('headers', {})), the Content-Type
\* default on that dict, request(..., headers=headers); then raw_request up to
\* the await of the token: _pop_headers copies kwargs['headers']
TaskCall(t) ==
  /\ UNCHANGED <<reqVars, authVars, authzVars, shortcutVars, sessionVars>>
  /\ t_pc[t] = "CALLED"
  /\ LET c1 == CopyOf(heap, CallerRef)
         posted == [c1.heap EXCEPT ![c1.ref] = SetDefault(@, "Content-Type",
                                                          "application/json")]
         hp == IF t_kind[t] = "post" THEN posted ELSE heap
         kw == IF t_kind[t] = "post" THEN c1.ref ELSE CallerRef
         c2 == CopyOf(hp, kw)
     IN  /\ heap' = c2.heap
         /\ t_kw' = [t_kw EXCEPT ![t] = kw]
         /\ t_headers' = [t_headers EXCEPT ![t] = c2.ref]
  /\ t_pc' = [t_pc EXCEPT ![t] = "RESOLVING"]
  /\ UNCHANGED <<caller_mapping, t_kind, t_left, t_calls>>

\* The token has come: headers['Authorization'] = ..., session.request goes out
TaskSend(t) ==
  /\ UNCHANGED <<reqVars, authVars, authzVars, shortcutVars, sessionVars>>
  /\ t_pc[t] = "RESOLVING"
  /\ heap' = [heap EXCEPT ![t_headers[t]] =
                SetAuthorization(@, AuthorizationValue(TaskToken(t)))]
  /\ t_calls' = Append(t_calls, [task |-> t, headers |-> heap'[t_headers[t]]])
  /\ t_pc' = [t_pc EXCEPT ![t] = "SENT"]
  /\ UNCHANGED <<caller_mapping, t_kind, t_kw, t_headers, t_left>>

\* The response has come: request() returns, or its loop calls raw_request for
\* the next page with the same kwargs (_pop_headers copies again)
TaskReceive(t) ==
  /\ UNCHANGED <<reqVars, authVars, authzVars, shortcutVars, sessionVars>>
  /\ t_pc[t] = "SENT"
  /\ IF t_left[t] > 1
     THEN LET c == CopyOf(heap, t_kw[t])
          IN  /\ heap' = c.heap
              /\ t_headers' = [t_headers EXCEPT ![t] = c.ref]
              /\ t_left' = [t_left EXCEPT ![t] = @ - 1]
              /\ t_pc' = [t_pc EXCEPT ![t] = "RESOLVING"]
     ELSE /\ t_pc' = [t_pc EXCEPT ![t] = "DONE"]
          /\ UNCHANGED <<heap, t_headers, t_left>>
  /\ UNCHANGED <<caller_mapping, t_kind, t_kw, t_calls>>

\* Mappings a caller may share between its calls.
SharedMappings ==
  {EmptyDict, [Accept |-> "text/plain"], [Authorization |-> "token caller"],
   "content-type" :> "text/plain"}

\* Every task has just been called with the caller's one mapping: request() with
\* all_pages over two pages, or post() (one call).
InitTasks ==
  /\ caller_mapping \in SharedMappings
  /\ heap = <<caller_mapping>>
  /\ t_kind \in [Tasks -> {"request", "post"}]
  /\ t_pc = [t \in Tasks |-> "CALLED"]
  /\ t_kw = [t \in Tasks |-> 0]
  /\ t_headers = [t \in Tasks |-> 0]
  /\ t_left = [t \in Tasks |-> IF t_kind[t] = "post" THEN 1 ELSE 2]
  /\ t_calls = <<>>

\* No concurrent calls.
IdleTasks ==
  /\ caller_mapping = EmptyDict
  /\ heap = <<>>
  /\ t_kind = [t \in Tasks |-> "request"]
  /\ t_pc = [t \in Tasks |-> "IDLE"]
  /\ t_kw = [t \in Tasks |-> 0]
  /\ t_headers = [t \in Tasks |-> 0]
  /\ t_left = [t \in Tasks |-> 0]
  /\ t_calls = <<>>

vars == <<reqVars, authVars, otherVars>>

Init ==
  /\ InitSession
  /\ \/ InitRequest /\ NoShortcut /\ IdleCallback /\ IdleAuthorize /\ IdleTasks
     \/ InitShortcut /\ IdleCallback /\ IdleAuthorize /\ IdleTasks
     \/ IdleRequest /\ NoShortcut /\ scenario \in {"callback", "session_exchange"}
          /\ InitCallback /\ IdleAuthorize /\ IdleTasks
     \/ IdleRequest /\ NoShortcut /\ scenario = "authorize" /\ ConfiguredForAuthorize
          /\ InitAuthorize /\ IdleTasks
     \/ IdleRequest /\ NoShortcut /\ scenario = "concurrent" /\ IdleCallback
          /\ IdleAuthorize /\ InitTasks
  /\ loop_debug \in (IF scenario \in SessionScenarios THEN BOOLEAN ELSE {FALSE})

Next ==
  \/ Shortcut
  \/ ResolveExplicit
  \/ pc = "PENDING" /\ \E v \in GetterValues(scenario) : ResolveGetter(v)
  \/ ResolveUnconfigured
  \/ Send
  \/ pc = "SENT" /\ received = <<>> /\ \E r \in Upstream(scenario, 1) : ReceiveFirst(r)
  \/ pc = "SENT" /\ received # <<>>
       /\ \E r \in Upstream(scenario, Len(calls)) : ReceiveNext(r)
  \/ CallbackWithCode
  \/ CallbackWithoutCode
  \/ h_pc = "EXCHANGING"
       /\ \E s \in {200, 404}, fields \in TokenBodies(scenario) : ExchangeResponse(s, fields)
  \/ Authorize
  \/ InitApp
  \/ LoopRun
  \/ AppAclose
  \/ DropClient
  \/ LoopStop
  \/ LoopClose
  \/ BeginExit
  \/ FinalizerFire
  \/ EndExit
  \/ \E t \in Tasks : TaskCall(t)
  \/ \E t \in Tasks : TaskSend(t)
  \/ \E t \in Tasks : TaskReceive(t)

Spec == Init /\ [][Next]_vars

\* One request() call taken alone, from the call to its return or exception.
InitLive == Init /\ scenario = "chain"

NextLive ==
  \/ ResolveExplicit
  \/ pc = "PENDING" /\ \E v \in GetterValues(scenario) : ResolveGetter(v)
  \/ ResolveUnconfigured
  \/ Send
  \/ pc = "SENT" /\ received = <<>> /\ \E r \in Upstream(scenario, 1) : ReceiveFirst(r)
  \/ pc = "SENT" /\ received # <<>>
       /\ \E r \in Upstream(scenario, Len(calls)) : ReceiveNext(r)

\* The event loop resumes a coroutine whose awaited value is ready, and the
\* upstream answers every call that was sent: no enabled step waits forever.
SpecLive == InitLive /\ [][NextLive]_vars /\ WF_vars(NextLive)

\* ------------------------------------------------------------------ claims
\* A response the code decodes: status in 200..299 and a JSON content type.
ValidStatus(r) == r.status_code \in 200..299
ValidJsonPage(r) == ValidStatus(r) /\ r.content_type \in JsonTypes
LastReceived == received[Len(received)]

\* The elements of the pages' lists, page 1 first.
RECURSIVE ConcatItems(_)
ConcatItems(pages) ==
  IF pages = <<>> THEN <<>> ELSE Head(pages).json.items \o ConcatItems(Tail(pages))

\* C1: a response with a status outside 200..299, first page or follow-up, is the
\* last one fetched: request raises GitHubError carrying that response, returns
\* nothing, and no HTTP call follows it.
C1_InvalidStatusRaises ==
  \A i \in 1..Len(received) :
    ~ValidStatus(received[i]) =>
      /\ i = Len(received)
      /\ Len(calls) = i
      /\ pc = "ERROR"
      /\ outcome = "GitHubError"
      /\ exc = Some(received[i])
      /\ exc[1].status_code = received[i].status_code
      /\ retval = None

C1_Witness ==
  /\ Len(received) >= 2
  /\ LastReceived.status_code = 404
  /\ outcome = "GitHubError"
  /\ result # None /\ Len(result[1].items) >= 1

\* C2: an all_pages request over a chain of valid JSON pages that are all arrays
\* (all objects with items) returns the array (the object whose items are) the
\* concatenation of every page's elements in link order, after following the
\* chain to the page without a next link.
C2_PagesConcatenated ==
  \A sh \in {"array", "items"} :
    ( /\ all_pages
      /\ pc \in {"DONE", "ERROR"}
      /\ received # <<>>
      /\ \A i \in 1..Len(received) :
           ValidJsonPage(received[i]) /\ received[i].json.shape = sh )
    => /\ outcome = "json"
       /\ LastReceived.next = None
       /\ retval = Some([shape |-> sh, items |-> ConcatItems(received)])

C2_Witness ==
  /\ all_pages
  /\ outcome = "json"
  /\ Len(received) >= 3
  /\ \A i \in 1..Len(received) : received[i].json.shape = "array"
  /\ Len(retval[1].items) >= 3

\* C3: a wrapped handler is invoked exactly once per callback, after the token is
\* resolved and with it as first argument: with a code, one exchange POST is made
\* and its result is passed; without a code, no POST is made and None is passed.
C3_ContinuationOnceWithResolvedToken ==
  /\ Len(f_calls) <= 1
  /\ (h_pc = "DONE") <=> (Len(f_calls) = 1)
  /\ h_pc = "EXCHANGING" => f_calls = <<>>
  /\ args = None =>
       /\ posts = <<>>
       /\ token_response = None
       /\ f_calls # <<>> => f_calls[1] = None
  /\ args # None =>
       /\ h_pc \in {"EXCHANGING", "DONE"} => Len(posts) = 1
       /\ f_calls # <<>> =>
            /\ token_response # None
            /\ f_calls[1] = AccessTokenOf(token_response[1].content)

C3_Witness ==
  /\ h_pc = "DONE"
  /\ args = Some("KODE")
  /\ Len(posts) = 1
  /\ f_calls = <<Some("asdf")>>

\* The values of the fields called name, in body order.
RECURSIVE FieldValues(_, _)
FieldValues(fields, name) ==
  IF fields = <<>> THEN <<>>
  ELSE (IF Head(fields)[1] = name THEN <<Head(fields)[2]>> ELSE <<>>)
         \o FieldValues(Tail(fields), name)

\* C4 as claimed: the exchange returns the value of the body's access_token field
\* whenever the body has that field, and None when it has none.
C4_TokenIsFieldValue ==
  (h_pc = "DONE" /\ args # None) =>
    LET values == FieldValues(sent_fields, "access_token")
    IN  data = IF values = <<>> THEN None ELSE Some(values[1])

\* C4 amended: the exchange returns the first non-empty value of the body's
\* access_token fields, and None when the body has no access_token field with a
\* non-empty value, whatever the response's status.
C4_TokenIsFirstNonEmptyValue ==
  (h_pc = "DONE" /\ args # None) =>
    LET values == SelectSeq(FieldValues(sent_fields, "access_token"), LAMBDA v : v # "")
    IN  data = IF values = <<>> THEN None ELSE Some(values[1])

C4_Witness ==
  /\ h_pc = "DONE"
  /\ token_response # None /\ token_response[1].status_code = 404
  /\ Len(sent_fields) >= 2
  /\ data = Some("a b&c=d+e%")

C6_UnconfiguredTokenSourceFails ==
  (pc # "IDLE" /\ get_access_token = "NotImplemented" /\ access_token = None) =>
    /\ calls = <<>>
    /\ getter_returns = <<>>
    /\ pc \in {"PENDING", "ERROR"}
    /\ pc = "ERROR" => outcome = "NotImplementedError"
    /\ pc = "PENDING" => outcome = "pending"
    /\ retval = None

C6_Witness ==
  /\ outcome = "NotImplementedError"
  /\ pc = "ERROR"
  /\ calls = <<>>

\* C7 as claimed: a follow-up page whose shape differs from the accumulator's
\* (array against object with items, or the reverse) makes request raise
\* GitHubError, and nothing is returned.
C7_MixedShapesRaiseGitHubError ==
  ( /\ Len(received) >= 2
    /\ result # None
    /\ ValidJsonPage(LastReceived)
    /\ \/ result[1].shape = "array" /\ LastReceived.json.shape = "items"
       \/ result[1].shape = "items" /\ LastReceived.json.shape = "array" )
  => outcome = "GitHubError" /\ retval = None

\* C8 as claimed: once a next link has been followed, a decoded page (the first
\* included) that is neither an array nor an object with items makes request
\* raise GitHubError, and so does a 2xx follow-up page that is not JSON.
C8_MalformedPageRaisesGitHubError ==
  /\ ( /\ Len(received) >= 2
       /\ \E i \in 1..Len(received) :
            ValidJsonPage(received[i]) /\ received[i].json.shape \in {"object", "scalar"} )
     => outcome = "GitHubError"
  /\ \A i \in 2..Len(received) :
       (ValidStatus(received[i]) /\ received[i].content_type \notin JsonTypes)
         => outcome = "GitHubError" /\ retval = None

\* C9: request returns decoded JSON exactly when the first valid response has a
\* JSON content type; otherwise it returns the raw response itself after exactly
\* one HTTP call, whatever all_pages and the response's next link say.
C9_JsonOrRaw ==
  (received # <<>> /\ ValidStatus(received[1])) =>
    IF received[1].content_type \in JsonTypes
    THEN /\ outcome # "raw"
         /\ pc = "DONE" => outcome = "json" /\ retval # None /\ retval = result
    ELSE /\ pc = "DONE"
         /\ outcome = "raw"
         /\ retval = Some(received[1])
         /\ result = None
         /\ Len(calls) = 1

C9_Witness ==
  /\ outcome = "raw"
  /\ all_pages
  /\ received[1].next # None
  /\ received[1].content_type = "application/jsonp"
  /\ Len(calls) = 1

\* The base joined to a resource that starts with '/', with one slash between them.
JoinWithOneSlash(base, res) ==
  IF base # "" /\ SubSeq(base, Len(base), Len(base)) = "/"
  THEN SubSeq(base, 1, Len(base) - 1) \o res
  ELSE base \o res

\* C10 as claimed: for every configured base, an http:// or https:// resource is
\* requested verbatim, a resource starting with '/' at the base joined to it with
\* exactly one slash and no character of the base lost, any other resource at
\* base + resource.
C10_ResourceUrl ==
  (Len(calls) = 1 /\ received = <<>>) =>
    calls[1].url =
      IF StartsWith(resource, "http://") \/ StartsWith(resource, "https://") THEN resource
      ELSE IF StartsWith(resource, "/") THEN JoinWithOneSlash(base_url, resource)
      ELSE base_url \o resource

\* C16: with a getter registered and no explicit token, the getter is invoked once
\* for each HTTP call, before the call goes out, follow-up pages included; with an
\* explicit access_token it is never invoked.
C16_GetterOncePerCall ==
  /\ access_token # None => getter_returns = <<>>
  /\ (access_token = None /\ get_access_token = "registered") =>
       Len(getter_returns) = Len(calls) + (IF pc = "TOKEN_RESOLVED" THEN 1 ELSE 0)

C16_Witness ==
  /\ access_token = None
  /\ Len(calls) >= 3
  /\ Len(getter_returns) = Len(calls)
  /\ getter_returns[1] # getter_returns[2]

\* C18: a code exchange issues exactly one POST, to auth_url + 'access_token',
\* whose form fields are exactly code (as received in the callback), client_id and
\* client_secret (as configured); without a code nothing is posted.
C18_ExchangePost ==
  /\ (args = None \/ h_pc \in {"IDLE", "CALLED"}) => posts = <<>>
  /\ (args # None /\ h_pc \in {"EXCHANGING", "DONE"}) =>
       /\ Len(posts) = 1
       /\ posts[1].url = auth_url \o "access_token"
       /\ DOMAIN posts[1].data = {"code", "client_id", "client_secret"}
       /\ posts[1].data["code"] = args[1]
       /\ posts[1].data["client_id"] = client_id
       /\ posts[1].data["client_secret"] = client_secret

C18_Witness ==
  /\ h_pc = "DONE"
  /\ args = Some("KODE")
  /\ posts[1].url = "http://localhost/oauth/access_token"
  /\ posts[1].data = [code |-> "KODE", client_id |-> "123", client_secret |-> "SEKRET"]

\* C20: within one request() call at most one HTTP fetch is outstanding, page k+1
\* is fetched only after page k's response was received and found valid, and its
\* URL is the next link of page k.
C20_SequentialPagination ==
  /\ Len(calls) - Len(received) \in {0, 1}
  /\ (Len(calls) > Len(received)) <=> (pc = "SENT")
  /\ \A k \in 1..(Len(calls) - 1) :
       /\ k <= Len(received)
       /\ ValidJsonPage(received[k])
       /\ received[k].next # None
       /\ calls[k + 1].url = received[k].next[1]

C20_Witness ==
  /\ Len(calls) >= 3
  /\ pc = "SENT"
  /\ calls[3].url = received[2].next[1]

\* C19: an all_pages request whose calls are all answered reaches DONE (with a
\* result) or ERROR; a page without a next link is the last one fetched, and the
\* request that returns has just read such a page.
StopsAtFirstPageWithoutNext ==
  /\ \A k \in 1..(Len(received) - 1) : received[k].next # None
  /\ (received # <<>> /\ LastReceived.next = None) => pc \in {"DONE", "ERROR"}
  /\ (pc = "DONE" /\ all_pages /\ outcome = "json") =>
       /\ LastReceived.next = None
       /\ Len(calls) = Len(received)
       /\ retval = result
       /\ retval # None

ExpectedQuery(supplied(_)) ==
  <<<<"client_id", client_id>>>>
    \o (IF supplied(scope) THEN <<<<"scope", scope[1]>>>> ELSE <<>>)
    \o (IF supplied(redirect_uri) THEN <<<<"redirect_uri", redirect_uri[1]>>>> ELSE <<>>)
    \o (IF supplied(state) THEN <<<<"state", state[1]>>>> ELSE <<>>)

NotNone(v) == v # None
NotEmpty(v) == v # None /\ v[1] # ""

\* C11 as stated: the query of the redirect URL holds client_id and every one of
\* scope, redirect_uri, state that is not None, empty strings included, and
\* authorize() issues no HTTP call.
C11_QueryHoldsEveryNonNull ==
  z_pc = "DONE" =>
    /\ redirect_to = Some(auth_url \o "authorize?" \o UrlEncode(ExpectedQuery(NotNone)))
    /\ posts = <<>>
    /\ calls = <<>>

\* C11, amended: the query holds client_id and every one of scope, redirect_uri,
\* state that is neither None nor empty, form-encoded, and nothing else;
\* authorize() issues no HTTP call and leaves the client and every call in
\* progress as they were.
C11_QueryHoldsEveryNonEmpty ==
  /\ [](z_pc = "DONE" =>
          /\ redirect_to = Some(auth_url \o "authorize?" \o UrlEncode(ExpectedQuery(NotEmpty)))
          /\ posts = <<>>
          /\ calls = <<>>)
  /\ [][z_pc' # z_pc => UNCHANGED <<reqVars, authVars, shortcutVars, sessionVars>>]_vars

C11_Witness ==
  /\ z_pc = "DONE"
  /\ scope = Some("user,repo")
  /\ redirect_uri = None
  /\ state = Some("a b&c")
  /\ redirect_to = Some("https://github.com/login/oauth/authorize?"
                          \o "client_id=123&scope=user%2Crepo&state=a+b%26c")

\* str.lower() on header names
Uppers == "ABCDEFGHIJKLMNOPQRSTUVWXYZ"
Lowers == "abcdefghijklmnopqrstuvwxyz"
RECURSIVE lower(_)
lower(s) ==
  IF s = "" THEN ""
  ELSE LET c == SubSeq(s, 1, 1)
           I == {i \in 1..26 : SubSeq(Uppers, i, i) = c}
       IN  (IF I = {} THEN c ELSE LET i == CHOOSE i \in I : TRUE IN SubSeq(Lowers, i, i))
             \o lower(Tail(s))

\* The values a headers mapping holds for a header name (names are case-insensitive)
HeaderValues(h, name) == {h[k] : k \in {x \in DOMAIN h : lower(x) = lower(name)}}

\* The content-type values the caller of the shortcut supplied
CallerContentTypes == HeaderValues(shortcut_headers.dict, "Content-Type")

\* C17: every HTTP call of a shortcut carries the shortcut's verb; for post, put
\* and patch its body is the JSON text of the payload and its content-type is
\* application/json when the caller gave none, else the caller's value and no
\* other; and the shortcut gets as far as the HTTP call.
C17_ShortcutVerbBodyContentType ==
  shortcut # "" =>
    /\ \A i \in 1..Len(calls) :
         /\ calls[i].method = Verb[shortcut]
         /\ shortcut \in Encoding =>
              /\ calls[i].data = Some(JsonDumps(payload))
              /\ HeaderValues(calls[i].headers, "Content-Type") =
                   (IF CallerContentTypes = {} THEN {"application/json"}
                    ELSE CallerContentTypes)
         /\ shortcut \notin Encoding => calls[i].data = None
    /\ (pc = "ERROR" /\ access_token # None) => calls # <<>>

\* The transport of the HTTP call that is waiting for its answer, if any
Outstanding ==
  (IF pc = "SENT" THEN {calls[Len(calls)].session} ELSE {})
    \cup (IF h_pc = "EXCHANGING" THEN {posts[Len(posts)].session} ELSE {})

\* Nothing that was scheduled for transport s is still waiting in the loop
Settled(s) == \A i \in 1..Len(ready) : ready[i] # s

\* C12: a transport replaced through the session setter is closed once the
\* running loop has run what the setter scheduled for it: no replaced transport
\* is left open with nothing more to come.
C12_ReplacedTransportClosed ==
  \A s \in replaced :
    (s # 0 /\ loop_state = "running" /\ Settled(s)) => is_closed[s]

\* C13: over replacements and finalizer firings the close of one transport is
\* scheduled at most once.
C13_CloseScheduledAtMostOnce ==
  \A s \in 1..MaxSessions : scheduled[s] <= 1

\* C14: while an HTTP call (a page fetch of request(), the POST of the code
\* exchange) waits for its answer, the transport it was issued on is not closed,
\* whatever replacement or release happens meanwhile.
C14_OutstandingTransportOpen ==
  \A s \in Outstanding : ~is_closed[s]

C14_Witness ==
  /\ Outstanding # {}
  /\ \E s \in Outstanding : s \in replaced /\ s \in unawaited /\ s # _session

\* C15: a client dropped without an explicit shutdown does not leak its
\* transport: when the interpreter is gone, with the loop left open all along
\* and every finalizer run, the transport has been closed.
C15_DroppedClientTransportReleased ==
  (~client_alive /\ phase = "exited" /\ loop_state # "closed") => is_closed[_session]

\* C22: once the token is resolved the next step of the call is the HTTP call,
\* also when the getter returned None: that call goes out and its Authorization
\* header is 'token None'; it is neither dropped nor sent without the header.
C22_NullTokenStillSent ==
  /\ [](\A i \in 1..Len(calls) :
          (access_token = None /\ getter_returns[i] = None) =>
            /\ "Authorization" \in DOMAIN calls[i].headers
            /\ calls[i].headers["Authorization"] = "token None")
  /\ []((access_token = None /\ get_access_token = "registered" /\ pc # "TOKEN_RESOLVED")
          => Len(calls) = Len(getter_returns))
  /\ [][(pc = "TOKEN_RESOLVED" /\ pc' # pc) =>
          /\ pc' = "SENT"
          /\ Len(calls') = Len(calls) + 1
          /\ calls'[Len(calls')].headers = headers]_vars

C22_Witness ==
  /\ pc = "DONE"
  /\ access_token = None
  /\ Len(calls) >= 2
  /\ getter_returns[2] = None
  /\ calls[2].headers["Authorization"] = "token None"

\* What belongs to the client and not to one call: configuration, the registered
\* getter, the transport handle and its finalizers
ClientState ==
  <<client_id, client_secret, base_url, auth_url, get_access_token, _session, finalizers>>

\* A step of a call: of request()/raw_request(), of a shortcut, of a task
CallStep == pc' # pc \/ t_pc' # t_pc

\* C21: the caller's headers mapping is never written to (the calls work on
\* copies), so of several calls in progress that were given one mapping each
\* sends its own token and no other call's; and no step of a call changes the
\* client's configuration, getter or transport handle.
C21_CallerHeadersAndClientUntouched ==
  /\ [](heap # <<>> => heap[CallerRef] = caller_mapping)
  /\ [](\A i \in 1..Len(t_calls) :
          /\ "Authorization" \in DOMAIN t_calls[i].headers
          /\ t_calls[i].headers["Authorization"]
               = AuthorizationValue(TaskToken(t_calls[i].task))
          /\ \A k \in DOMAIN caller_mapping \ {"Authorization"} :
               /\ k \in DOMAIN t_calls[i].headers
               /\ t_calls[i].headers[k] = caller_mapping[k])
  /\ [][CallStep => UNCHANGED ClientState]_vars
  /\ [][(pc' # pc /\ pc # "CALLED") => kw_headers' = kw_headers]_vars

C21_Witness ==
  /\ \A t \in Tasks : t_pc[t] = "SENT"
  /\ t_kind[1] = "post"
  /\ t_kind[2] = "request"
  /\ "Authorization" \in DOMAIN caller_mapping
  /\ \E i, j \in 1..Len(t_calls) :
       /\ t_calls[i].task = 1
       /\ t_calls[j].task = 2
       /\ t_calls[i].headers["Authorization"] = "token tok1"
       /\ t_calls[j].headers["Authorization"] = "token tok2"
  /\ heap[CallerRef]["Authorization"] = "token caller"

====
